---- MODULE Spec2Model ----
(***************************************************************************)
(* Local-energy evaluation of exponet/hamiltonian.py and the Scf helper of  *)
(* exponet/utils/scf.py.                                                    *)
(*                                                                         *)
(* A float is an exact rational [n, d] with d > 0, or one of the three      *)
(* IEEE specials written with d = 0: Inf = [1, 0], NegInf = [-1, 0] and     *)
(* NaN = [0, 0].  The arithmetic follows IEEE 754 on them, except that      *)
(* there is one zero: -0.0 is 0.  Equality of records stands for equality   *)
(* of values, so NaN is one value here.  Electrons and atoms sit on the x   *)
(* axis, so that every Euclidean distance is an integer.                    *)
(***************************************************************************)
EXTENDS Integers, Sequences, FiniteSets, TLC

VARIABLES args, built, closure, call, out, seen, pf, pfout

vars == <<args, built, closure, call, out, seen, pf, pfout>>

\* Largest number of excited states requested at construction.
MaxStates == 3
\* Largest number of electrons in a configuration.
MaxElec == 3

None == "None"

-----------------------------------------------------------------------------
(* Exact arithmetic standing for the floating-point operations.             *)

Abs(x) == IF x < 0 THEN -x ELSE x

RECURSIVE GCD(_, _)
GCD(a, b) == IF b = 0 THEN a ELSE GCD(b, a % b)

Inf == [n |-> 1, d |-> 0]

NegInf == [n |-> -1, d |-> 0]

NaN == [n |-> 0, d |-> 0]

IsFinite(a) == a.d # 0

Sgn(i) == IF i > 0 THEN 1 ELSE IF i < 0 THEN -1 ELSE 0

\* The float n / d: for d = 0 the special of the sign of n.
Norm(n, d) ==
  IF d = 0 THEN [n |-> Sgn(n), d |-> 0]
  ELSE LET g == GCD(Abs(n), Abs(d))
           s == IF d < 0 THEN -1 ELSE 1
       IN  [n |-> (s * n) \div g, d |-> (s * d) \div g]

R(i) == [n |-> i, d |-> 1]

Zero == R(0)

\* a + b: NaN with a NaN operand and for Inf + NegInf.
RAdd(a, b) ==
  IF a.d = 0 /\ b.d = 0 THEN (IF a.n = b.n THEN a ELSE NaN)
  ELSE IF a.d = 0 THEN a
  ELSE IF b.d = 0 THEN b
  ELSE LET g == GCD(a.d, b.d)
       IN  Norm(a.n * (b.d \div g) + b.n * (a.d \div g), (a.d \div g) * b.d)

RNeg(a) == [n |-> -a.n, d |-> a.d]

RSub(a, b) == RAdd(a, RNeg(b))

\* a * b: NaN with a NaN operand and for 0 * Inf.
RMul(a, b) ==
  IF a.d = 0 \/ b.d = 0 THEN Norm(Sgn(a.n) * Sgn(b.n), 0)
  ELSE Norm(a.n * b.n, a.d * b.d)

\* a / b: x / Inf = 0, x / 0 = Inf with the sign of x, 0 / 0 = Inf / Inf = NaN.
RDiv(a, b) ==
  IF a = NaN \/ b = NaN THEN NaN
  ELSE IF a.d = 0 /\ b.d = 0 THEN NaN
  ELSE IF a.d = 0 THEN Norm(a.n * (IF b.n < 0 THEN -1 ELSE 1), 0)
  ELSE IF b.d = 0 THEN Zero
  ELSE Norm(a.n * b.d, a.d * b.n)

\* |a| < |b| of two finite floats.
AbsLess(a, b) == Abs(a.n) * b.d < Abs(b.n) * a.d

Half == Norm(1, 2)

\* The sequence f as a tuple, every entry evaluated once.
Tup(f) == f \o <<>>

RECURSIVE RSum(_)
RSum(s) ==
  LET t == Tup(s) IN IF t = <<>> THEN Zero ELSE RAdd(Head(t), RSum(Tail(t)))

RECURSIVE Pow2(_)
Pow2(k) == IF k = 0 THEN 1 ELSE 2 * Pow2(k - 1)

\* A log-magnitude: the float k * ln(2), for an integer k.
Ln2Times(k) == [ln2 |-> k]

\* a - b of two log-magnitudes
LogSub(a, b) == Ln2Times(a.ln2 - b.ln2)

\* jnp.exp of a log-magnitude: exp(k * ln(2)) = 2^k.
Exp(a) == IF a.ln2 >= 0 THEN R(Pow2(a.ln2)) ELSE Norm(1, Pow2(-a.ln2))

\* jnp.max of an array of log-magnitudes
RECURSIVE MaxOf(_)
MaxOf(s) ==
  LET t == Tup(s)
  IN  IF Len(t) = 1 THEN t[1]
      ELSE LET m == MaxOf(Tail(t)) IN IF t[1].ln2 >= m.ln2 THEN t[1] ELSE m

RECURSIVE Flatten(_)
Flatten(ss) ==
  LET t == Tup(ss) IN IF t = <<>> THEN <<>> ELSE Head(t) \o Flatten(Tail(t))

\* The integer square root of a perfect square.
ISqrt(q) == CHOOSE r \in 0..q : r * r = q

RECURSIVE SumSq(_)
SumSq(s) ==
  LET t == Tup(s) IN IF t = <<>> THEN 0 ELSE t[1] * t[1] + SumSq(Tail(t))

\* jnp.linalg.norm of the difference of two points.
Dist(u, v) == ISqrt(SumSq([i \in 1..Len(u) |-> u[i] - v[i]]))

-----------------------------------------------------------------------------
(* Square matrices of rationals: a sequence of rows.                        *)

DropAt(s, i) == Tup([k \in 1..(Len(s) - 1) |-> IF k < i THEN s[k] ELSE s[k + 1]])

Minor(M, i, j) == Tup([r \in 1..(Len(M) - 1) |-> DropAt(DropAt(M, i)[r], j)])

RECURSIVE Det(_)
Det(M) ==
  IF Len(M) = 0 THEN R(1)
  ELSE IF Len(M) = 1 THEN M[1][1]
  ELSE RSum([j \in 1..Len(M) |->
         RMul(IF j % 2 = 1 THEN M[1][j] ELSE RNeg(M[1][j]), Det(Minor(M, 1, j)))])

\* The sequence s with its entries a and b exchanged.
Swap(s, a, b) ==
  Tup([i \in 1..Len(s) |-> IF i = a THEN s[b] ELSE IF i = b THEN s[a] ELSE s[i]])

\* Partial pivoting: the first row i >= k with the largest |M[i][k]|.
PivotRow(M, k) ==
  CHOOSE p \in k..Len(M) :
    /\ \A i \in k..Len(M) : ~AbsLess(M[p][k], M[i][k])
    /\ \A i \in k..(p - 1) : AbsLess(M[i][k], M[p][k])

\* The LU factorisation with partial pivoting of a finite matrix, column by
\* column from k on: L (unit diagonal) below the diagonal of lu, U on and
\* above it, perm the order the rows were taken in.  A column whose pivot is
\* zero is left as it is, all of it being zero.
RECURSIVE LUFrom(_, _, _)
LUFrom(M, perm, k) ==
  IF k > Len(M) THEN [lu |-> M, perm |-> perm]
  ELSE LET p   == PivotRow(M, k)
           Ms  == Swap(M, k, p)
           piv == Ms[k][k]
           Me  == IF piv = Zero THEN Ms
                  ELSE Tup([i \in 1..Len(M) |->
                          IF i <= k THEN Ms[i]
                          ELSE LET f == RDiv(Ms[i][k], piv)
                               IN  Tup([j \in 1..Len(M) |->
                                      IF j < k THEN Ms[i][j]
                                      ELSE IF j = k THEN f
                                      ELSE RSub(Ms[i][j], RMul(f, Ms[k][j]))])])
       IN  LUFrom(Me, Swap(perm, k, p), k + 1)

\* The y with L y = b, L the unit lower triangle of lu: y[1..i-1] given.
RECURSIVE ForwardSub(_, _, _)
ForwardSub(lu, b, y) ==
  IF Len(y) = Len(b) THEN y
  ELSE LET i == Len(y) + 1
       IN  ForwardSub(lu, b, Append(y,
             RSub(b[i], RSum([j \in 1..(i - 1) |-> RMul(lu[i][j], y[j])]))))

\* The x with U x = y, U the upper triangle of lu: the last Len(x) entries
\* given.  A zero on the diagonal of U is divided by.
RECURSIVE BackSub(_, _, _)
BackSub(lu, y, x) ==
  IF Len(x) = Len(y) THEN x
  ELSE LET n == Len(y)
           i == n - Len(x)
           r == RSub(y[i], RSum([t \in 1..Len(x) |-> RMul(lu[i][i + t], x[t])]))
       IN  BackSub(lu, y, <<RDiv(r, lu[i][i])>> \o x)

\* A solve that forgets to divide by A.
SolveNoDivide(A, B) == B

\* jnp.linalg.solve(A, B): LU with partial pivoting of A, then the two
\* triangular solves for each column of B.  No singularity check is made: a
\* zero pivot is divided by, which leaves Inf, NegInf or NaN in the rows that
\* depend on it.
Solve(A, B) ==
  LET n    == Len(A)
      f    == LUFrom(Tup([i \in 1..n |-> Tup(A[i])]), Tup([i \in 1..n |-> i]), 1)
      Bt   == Tup([i \in 1..n |-> Tup(B[i])])
      cols == Tup([c \in 1..n |->
                BackSub(f.lu,
                        ForwardSub(f.lu, Tup([i \in 1..n |-> Bt[f.perm[i]][c]]), <<>>),
                        <<>>)])
  IN  [i \in 1..n |-> [c \in 1..n |-> cols[c][i]]]

TraceAnti(M) == RSum([i \in 1..Len(M) |-> M[i][Len(M) + 1 - i]])

\* jnp.trace
Trace(M) == RSum([i \in 1..Len(M) |-> M[i][i]])

-----------------------------------------------------------------------------
(* Complex values: a pair of rationals.                                     *)

C(re, im) == [re |-> re, im |-> im]

CReal(a) == C(a, Zero)

CAdd(x, y) == C(RAdd(x.re, y.re), RAdd(x.im, y.im))

CScale(a, x) == C(RMul(a, x.re), RMul(a, x.im))

RECURSIVE CSum(_)
CSum(s) ==
  LET t == Tup(s)
  IN  IF t = <<>> THEN CReal(Zero) ELSE CAdd(Head(t), CSum(Tail(t)))

-----------------------------------------------------------------------------
(* The wavefunction f handed to local_energy, with the derivatives jax      *)
(* takes of it.  State k (from 0) of the family is                          *)
(*   log|psi_k|(x) = -(params + k) * sum_i W(i) *                           *)
(*                     (x_i^2 + (ln(2) - 1) * stop_gradient(x_i^2)),        *)
(*   phase(x) = sum(x^2),                                                   *)
(* with a sign that depends on k and on where the first coordinate lies.    *)
(* Its value is ln(2) * -(params + k) * sum_i W(i) x_i^2, a multiple of      *)
(* ln(2) at integer coordinates, and its derivatives are those of           *)
(* -(params + k) * sum_i W(i) x_i^2.  The weights W(i) differ from one       *)
(* coordinate to the next, so that the Hessian diagonal tells the           *)
(* coordinates apart.                                                       *)

Params == {1, 2}

Keys == {0, 1}

Coords == {-1, 0, 1}

Alpha(params, k) == params + k

\* The weight of coordinate i (from 1) in log|psi|: 1, 2, 3, 1, 2, 3, ...
W(i) == ((i - 1) % 3) + 1

WSumSq(x) == SumSq(x) + SumSq([i \in 1..Len(x) |-> IF W(i) >= 2 THEN x[i] ELSE 0])
                      + SumSq([i \in 1..Len(x) |-> IF W(i) >= 3 THEN x[i] ELSE 0])

\* utils.select_output(f, 1)
LogAbs(params, k, x) == Ln2Times(-(Alpha(params, k) * WSumSq(x)))

\* The sign of a real-valued f.
Sign(k, x) ==
  IF x = <<>> THEN 1
  ELSE IF \/ k % 3 = 0 /\ x[1] > 0
          \/ k % 3 = 1 /\ x[1] = 0
          \/ k % 3 = 2 /\ x[1] < 0
       THEN -1 ELSE 1

\* The phase of a complex-valued f.
Phase(x) == SumSq(x)

\* utils.select_output(f, 0): the sign, or the phase when f is complex.
PhaseF(complex_output, k, x) == IF complex_output THEN Phase(x) ELSE Sign(k, x)

\* primal of jax.linearize(grad_f_closure, positions)
GradLogAbs(params, k, x) ==
  [i \in 1..Len(x) |-> -(2 * Alpha(params, k) * W(i) * x[i])]

\* dgrad_f(eye[i])[i]
HessLogAbs(params, k, x, i) == -(2 * Alpha(params, k) * W(i))

\* phase_primal of jax.linearize(grad_phase_closure, positions)
GradPhase(x) == [i \in 1..Len(x) |-> 2 * x[i]]

\* dgrad_phase(eye[i])[i]
HessPhase(x, i) == 2

Dot(u, v) == RSum([i \in 1..Len(u) |-> R(u[i] * v[i])])

-----------------------------------------------------------------------------
(* local_kinetic_energy                                                     *)

Methods == {"default", "folx", "other"}

\* hessian_diagonal(i), i from 1
HessianDiagonal(complex_output, params, x, i) ==
  C(R(HessLogAbs(params, 0, x, i)),
    IF complex_output THEN R(HessPhase(x, i)) ELSE Zero)

\* A loop that stops one index short.
RECURSIVE ForiLoopSkipLast(_, _, _, _, _, _)
ForiLoopSkipLast(i, n, val, complex_output, params, x) ==
  IF i >= n THEN val
  ELSE ForiLoopSkipLast(i + 1, n,
                        CAdd(val, HessianDiagonal(complex_output, params, x, i)),
                        complex_output, params, x)

\* lax.fori_loop(0, n, lambda i, val: val + hessian_diagonal(i), 0.0)
RECURSIVE ForiLoop(_, _, _, _, _, _)
ForiLoop(i, n, val, complex_output, params, x) ==
  IF i > n THEN val
  ELSE ForiLoop(i + 1, n, CAdd(val, HessianDiagonal(complex_output, params, x, i)),
                complex_output, params, x)

\* The indices lax.fori_loop(0, n, body, init) hands to its body, in order.
RECURSIVE ForiVisits(_, _, _)
ForiVisits(i, n, visited) ==
  IF i > n THEN visited ELSE ForiVisits(i + 1, n, Append(visited, i))

\* The carries lax.scan hands to its body over `length` steps, the body
\* returning carry + 1 each time.
RECURSIVE ScanCarries(_, _)
ScanCarries(i, length) ==
  IF length = 0 THEN <<>> ELSE <<i>> \o ScanCarries(i + 1, length - 1)

\* lax.scan(lambda i, _: (i + 1, hessian_diagonal(i)), 0, None, length=n)
Scan(n, complex_output, params, x) ==
  LET carries == ScanCarries(1, n)
  IN  [t \in 1..n |-> HessianDiagonal(complex_output, params, x, carries[t])]

\* _lapl_over_f of the 'default' method
LaplOverFDefault(use_scan, complex_output, params, x) ==
  LET n       == Len(x)
      primal  == GradLogAbs(params, 0, x)
      pprimal == GradPhase(x)
      loop    == IF use_scan
                 THEN CSum(Scan(n, complex_output, params, x))
                 ELSE ForiLoop(1, n, CReal(Zero), complex_output, params, x)
      r1      == CScale(RNeg(Half), loop)
      r2      == CAdd(r1, CReal(RNeg(RMul(Half, Dot(primal, primal)))))
      r3      == CAdd(r2, CReal(RMul(Half, Dot(pprimal, pprimal))))
      r4      == CAdd(r3, C(Zero, RNeg(Dot(primal, pprimal))))
  IN  IF complex_output THEN r4 ELSE r2

\* _lapl_over_f of the 'folx' method: -(laplacian + sum(jacobian^2)) / 2
LaplOverFFolx(params, x) ==
  LET laplacian == RSum([i \in 1..Len(x) |-> R(HessLogAbs(params, 0, x, i))])
      jacobian  == GradLogAbs(params, 0, x)
  IN  CReal(RNeg(RMul(Half, RAdd(laplacian, Dot(jacobian, jacobian)))))

\* Whether local_kinetic_energy raises NotImplementedError.
KineticRaises(complex_output, laplacian_method) ==
  \/ laplacian_method = "folx" /\ complex_output
  \/ laplacian_method \notin {"default", "folx"}

\* The ground-state kinetic energy function returned by local_kinetic_energy.
LocalKineticEnergy(use_scan, complex_output, laplacian_method, params, x) ==
  IF laplacian_method = "default"
  THEN LaplOverFDefault(use_scan, complex_output, params, x)
  ELSE LaplOverFFolx(params, x)

-----------------------------------------------------------------------------
(* excited_kinetic_energy_matrix                                            *)

\* Whether jnp.reshape(a, [rows, -1]) accepts an array of `size` elements.
ReshapeOk(size, rows) == size % rows = 0

\* jnp.reshape(a, [rows, -1]): the rows of the reshaped array.
Reshape(a, rows) ==
  LET w == Len(a) \div rows
  IN  [j \in 1..rows |-> SubSeq(a, (j - 1) * w + 1, j * w)]

\* _lapl_all_states: K psi_k / psi_k at one block, for each state k.
LaplAllStates(states, params, x) ==
  [k \in 1..states |->
     LET primal == GradLogAbs(params, k - 1, x)
         loop   == RSum([i \in 1..Len(x) |-> R(HessLogAbs(params, k - 1, x, i))])
     IN  RSub(RMul(RNeg(Half), loop), RMul(Half, Dot(primal, primal)))]

\* kpsi_mat = lapl * psi_mat, entry by entry
KPsi(lapl, psi) == RMul(lapl, psi)

\* Whether sign_mat comes out of folx.forward_laplacian as a FwdLaplArray
\* instead of an array: it does when the first output of f is differentiated
\* in the positions, as the phase of a complex-valued f is.  The sign of a
\* real-valued f is piecewise constant and comes out as an array.
SignIsFwdLapl(laplacian_method, complex_output) ==
  laplacian_method = "folx" /\ complex_output

\* An excited-state reduction that shifts psi_mat and leaves kpsi_mat unshifted.
ExcitedLaplOverFShiftPsiOnly(states, laplacian_method, complex_output, params, positions) ==
  LET pos_     == Reshape(positions, states)
      sign_mat == Tup([j \in 1..states |-> Tup([k \in 1..states |->
                     PhaseF(complex_output, k - 1, pos_[j])])])
      log_mat  == Tup([j \in 1..states |-> Tup([k \in 1..states |->
                     LogAbs(params, k - 1, pos_[j])])])
      lapl     == Tup([j \in 1..states |->
                     Tup(LaplAllStates(states, params, pos_[j]))])
      mx       == MaxOf(Flatten(log_mat))
      psi_mat  == Tup([j \in 1..states |-> Tup([k \in 1..states |->
                     RMul(R(sign_mat[j][k]), Exp(LogSub(log_mat[j][k], mx)))])])
      kpsi_mat == Tup([j \in 1..states |-> Tup([k \in 1..states |->
                     KPsi(lapl[j][k], RMul(R(sign_mat[j][k]), Exp(log_mat[j][k])))])])
  IN  IF SignIsFwdLapl(laplacian_method, complex_output)
      THEN [raised |-> "TypeError", psi_mat |-> <<>>, kpsi_mat |-> <<>>]
      ELSE [raised |-> None, psi_mat |-> psi_mat, kpsi_mat |-> kpsi_mat]

\* _lapl_over_f of excited_kinetic_energy_matrix: (psi_mat, kpsi_mat), row j for
\* block j of the configuration and column k for state k.  'default' and 'folx'
\* evaluate the same f and the same derivatives of it; f here does not read the
\* spins, so that 'folx' passing spins_[0] for every block changes nothing.
\* Under 'folx' a sign_mat that is a FwdLaplArray cannot be multiplied by
\* jnp.exp(...): sign_mat * jnp.exp(log_mat - jnp.max(log_mat)) is a TypeError.
ExcitedLaplOverF(states, laplacian_method, complex_output, params, positions) ==
  LET pos_     == Reshape(positions, states)
      sign_mat == Tup([j \in 1..states |-> Tup([k \in 1..states |->
                     PhaseF(complex_output, k - 1, pos_[j])])])
      log_mat  == Tup([j \in 1..states |-> Tup([k \in 1..states |->
                     LogAbs(params, k - 1, pos_[j])])])
      lapl     == Tup([j \in 1..states |->
                     Tup(LaplAllStates(states, params, pos_[j]))])
      mx       == MaxOf(Flatten(log_mat))
      psi_mat  == Tup([j \in 1..states |-> Tup([k \in 1..states |->
                     RMul(R(sign_mat[j][k]), Exp(LogSub(log_mat[j][k], mx)))])])
      kpsi_mat == Tup([j \in 1..states |-> Tup([k \in 1..states |->
                     KPsi(lapl[j][k], psi_mat[j][k])])])
  IN  IF SignIsFwdLapl(laplacian_method, complex_output)
      THEN [raised |-> "TypeError", psi_mat |-> <<>>, kpsi_mat |-> <<>>]
      ELSE [raised |-> None, psi_mat |-> psi_mat, kpsi_mat |-> kpsi_mat]

-----------------------------------------------------------------------------
(* Potential energy                                                         *)

\* jnp.triu_indices(n, k): the pairs (i, j) with j >= i + k, row by row.
TriuIndices(n, k) ==
  Flatten([i \in 1..n |->
     [t \in 1..(IF n - (i + k) + 1 > 0 THEN n - (i + k) + 1 ELSE 0) |->
        <<i, i + k + t - 1>>]])

PotentialElectronElectronDiag(r_ee) ==
  RSum([t \in 1..Len(TriuIndices(Len(r_ee), 0)) |->
     LET ij == TriuIndices(Len(r_ee), 0)[t]
     IN  RDiv(R(1), R(r_ee[ij[1]][ij[2]]))])

\* potential_electron_electron
PotentialElectronElectron(r_ee) ==
  RSum([t \in 1..Len(TriuIndices(Len(r_ee), 1)) |->
     LET ij == TriuIndices(Len(r_ee), 1)[t]
     IN  RDiv(R(1), R(r_ee[ij[1]][ij[2]]))])

\* potential_electron_nuclear
PotentialElectronNuclear(charges, r_ae) ==
  RNeg(RSum(Flatten([i \in 1..Len(r_ae) |-> [a \in 1..Len(charges) |->
     RDiv(R(charges[a]), R(r_ae[i][a]))]])))

\* A nuclear repulsion that keeps the diagonal of the charge/distance table.
PotentialNuclearNuclearDiag(charges, atoms) ==
  LET r_aa == [a \in 1..Len(atoms) |-> [b \in 1..Len(atoms) |->
                 Dist(atoms[a], atoms[b])]]
  IN  RSum(Flatten([a \in 1..Len(atoms) |-> [b \in 1..Len(atoms) |->
         IF b >= a
         THEN RDiv(R(charges[a] * charges[b]), R(r_aa[a][b]))
         ELSE Zero]]))

\* potential_nuclear_nuclear
PotentialNuclearNuclear(charges, atoms) ==
  LET r_aa == [a \in 1..Len(atoms) |-> [b \in 1..Len(atoms) |->
                 Dist(atoms[a], atoms[b])]]
  IN  RSum(Flatten([a \in 1..Len(atoms) |-> [b \in 1..Len(atoms) |->
         IF b >= a + 1
         THEN RDiv(R(charges[a] * charges[b]), R(r_aa[a][b]))
         ELSE Zero]]))

PotentialEnergyNoNuclear(r_ae, r_ee, atoms, charges) ==
  RAdd(PotentialElectronElectron(r_ee), PotentialElectronNuclear(charges, r_ae))

\* potential_energy
PotentialEnergy(r_ae, r_ee, atoms, charges) ==
  RAdd(RAdd(PotentialElectronElectron(r_ee),
            PotentialElectronNuclear(charges, r_ae)),
       PotentialNuclearNuclear(charges, atoms))

\* networks.construct_input_features: the electrons of a flat position array
\* and their distances to the atoms and to each other.
ConstructInputFeatures(pos, atoms) ==
  LET m    == Len(pos) \div 3
      elec == [e \in 1..m |-> SubSeq(pos, 3 * (e - 1) + 1, 3 * e)]
  IN  [r_ae |-> [i \in 1..m |-> [a \in 1..Len(atoms) |-> Dist(elec[i], atoms[a])]],
       r_ee |-> [i \in 1..m |-> [j \in 1..m |-> Dist(elec[i], elec[j])]]]

-----------------------------------------------------------------------------
(* The pseudopotential module (pp.make_pp_potential)                        *)

SymbolChoices == {<<>>, <<"H">>, <<"Li">>}

AtomicNumber(sym) == IF sym = "H" THEN 1 ELSE 3

\* Core electrons the pseudopotential of an element removes.
NCore(sym) == IF sym = "H" THEN 0 ELSE 2

\* The atoms whose element is among the symbols.
PPAtoms(charges, symbols) ==
  {a \in 1..Len(charges) :
     \E t \in 1..Len(symbols) : AtomicNumber(symbols[t]) = charges[a]}

\* make_pp_potential(...)[0]: the effective charges
MakePPEffectiveCharges(charges, symbols) ==
  [a \in 1..Len(charges) |->
     IF a \in PPAtoms(charges, symbols)
     THEN charges[a] - NCore(CHOOSE sym \in {"H", "Li"} : AtomicNumber(sym) = charges[a])
     ELSE charges[a]]

\* make_pp_potential(...)[1]: the local operator, a function of r_ae
PPLocalOp(charges, symbols, r_ae) ==
  RSum(Flatten([i \in 1..Len(r_ae) |-> [a \in 1..Len(charges) |->
     IF a \in PPAtoms(charges, symbols)
     THEN RDiv(R(1), R(r_ae[i][a] + 1))
     ELSE Zero]]))

\* make_pp_potential(...)[2]: the non-local operator on state k, a function of
\* the RNG key
PPNonlocalOp(key, k) == R(key + 1 + k)

-----------------------------------------------------------------------------
(* local_energy: construction                                               *)

\* The systems a function is built for: LiH on the x axis.
Molecules ==
  << [atoms |-> << <<-2, 0, 0>>, <<2, 0, 0>> >>, charges |-> <<3, 1>>] >>

Args ==
  [charges          : {Molecules[m].charges : m \in 1..Len(Molecules)},
   use_scan         : BOOLEAN,
   complex_output   : BOOLEAN,
   laplacian_method : Methods,
   states           : 0..MaxStates,
   pp_symbols       : SymbolChoices]

ComplexExcitedOffByOne(complex_output, states) == complex_output /\ states > 2

\* if complex_output and states > 1: raise NotImplementedError
ComplexExcitedUnsupported(complex_output, states) == complex_output /\ states > 1

\* Whether local_energy raises instead of returning a callable.
ConstructionRaises(a) ==
  \/ ComplexExcitedUnsupported(a.complex_output, a.states)
  \/ a.states = 0 /\ KineticRaises(a.complex_output, a.laplacian_method)

UsePPIfSymbols(charges, pp_symbols) == pp_symbols # <<>>

\* use_pp: false without symbols, else not jnp.all(effective_charges == charges)
UsePP(charges, pp_symbols) ==
  IF pp_symbols = <<>> THEN FALSE
  ELSE MakePPEffectiveCharges(charges, pp_symbols) # charges

\* The variables the returned _e_l closes over.
MakeClosure(a) ==
  [states            |-> a.states,
   laplacian_method  |-> a.laplacian_method,
   use_scan          |-> a.use_scan,
   complex_output    |-> a.complex_output,
   charges           |-> a.charges,
   pp_symbols        |-> a.pp_symbols,
   effective_charges |-> IF a.pp_symbols = <<>> THEN a.charges
                         ELSE MakePPEffectiveCharges(a.charges, a.pp_symbols),
   use_pp            |-> UsePP(a.charges, a.pp_symbols),
   pp_local          |-> IF UsePP(a.charges, a.pp_symbols) THEN "pp" ELSE "zero",
   pp_nonlocal       |-> IF UsePP(a.charges, a.pp_symbols) THEN "pp" ELSE "zero"]

-----------------------------------------------------------------------------
(* local_energy._e_l: one evaluation                                        *)

\* pp_local(r_ae) of the closure: the module's operator, or lambda: 0.0
PPLocal(cl, r_ae) ==
  IF cl.pp_local = "zero" THEN Zero
  ELSE PPLocalOp(cl.charges, cl.pp_symbols, r_ae)

\* pp_nonlocal(key, f, params, data, ae, r_ae) of the closure, on state k
PPNonlocal(cl, key, k) ==
  IF cl.pp_nonlocal = "zero" THEN Zero ELSE PPNonlocalOp(key, k)

\* The outcome of a call. blocks holds the rows the call split data.positions
\* into (the local positions of line 345), <<>> when it formed none.
Returned(total, mat) ==
  [status |-> "returned", total |-> total, mat |-> mat, err |-> None,
   blocks |-> <<>>]

Raised(err) ==
  [status |-> "error", total |-> CReal(Zero), mat |-> <<>>, err |-> err,
   blocks |-> <<>>]

NoOut ==
  [status |-> "none", total |-> CReal(Zero), mat |-> <<>>, err |-> None,
   blocks |-> <<>>]

\* The ground-state branch (states = 0): energy_mat is None, written <<>>.
GroundEnergy(cl, d) ==
  LET ft        == ConstructInputFeatures(d.positions, d.atoms)
      potential == RAdd(RAdd(PotentialEnergy(ft.r_ae, ft.r_ee, d.atoms,
                                             cl.effective_charges),
                             PPLocal(cl, ft.r_ae)),
                        PPNonlocal(cl, d.key, 0))
      kinetic   == LocalKineticEnergy(cl.use_scan, cl.complex_output,
                                      cl.laplacian_method, d.params, d.positions)
  IN  Returned(CAdd(CReal(potential), kinetic), <<>>)

\* The column of per-block potentials, broadcast against the states; with a
\* pseudopotential the non-local term adds one value per (block, state).
PotSpectrum(cl, d, positions) ==
      Tup([j \in 1..cl.states |->
         LET ft  == ConstructInputFeatures(positions[j], d.atoms)
             pot == PotentialEnergy(ft.r_ae, ft.r_ee, d.atoms, cl.effective_charges)
         IN  Tup([k \in 1..cl.states |->
                IF cl.use_pp
                THEN RAdd(RAdd(pot, PPLocal(cl, ft.r_ae)),
                          PPNonlocal(cl, d.key, k - 1))
                ELSE pot])])

\* The excited-state branch (states >= 1), in the order of the code.
\* Line 345 splits data.positions into states rows whenever states divides
\* its length, which is three times the electron count: with three states and
\* two electrons it forms three rows of two coordinates. The rows go to
\* vmap_features (line 346) whatever their size. When states does not divide
\* the electron count the rows are not whole electrons, and the call raises
\* there or at the latest in the reshape of data.spins (line 358 with a
\* pseudopotential, line 186 without). Then come the kinetic matrices, whose
\* exception ends the call, and the solve.
ExcitedEnergy(cl, d) ==
  IF ~ReshapeOk(Len(d.positions), cl.states)
  THEN Raised("ReshapeError")
  ELSE
    LET positions    == Tup(Reshape(d.positions, cl.states))
        pot_spectrum == PotSpectrum(cl, d, positions)
        ke           == ExcitedLaplOverF(cl.states, cl.laplacian_method,
                                         cl.complex_output, d.params, d.positions)
        hpsi_mat     == Tup([j \in 1..cl.states |-> Tup([k \in 1..cl.states |->
                           RAdd(ke.kpsi_mat[j][k],
                                RMul(ke.psi_mat[j][k], pot_spectrum[j][k]))])])
        energy_mat   == Solve(ke.psi_mat, hpsi_mat)
        result       == IF ~ReshapeOk(d.nspins, cl.states)
                        THEN Raised("ReshapeError")
                        ELSE IF cl.laplacian_method \notin {"default", "folx"}
                        THEN Raised("NotImplementedError")
                        ELSE IF ke.raised # None THEN Raised(ke.raised)
                        ELSE Returned(CReal(Trace(energy_mat)), energy_mat)
    IN  [result EXCEPT !.blocks = positions]

\* _e_l(params, key, data)
E_l(cl, d) ==
  IF cl.states # 0 THEN ExcitedEnergy(cl, d) ELSE GroundEnergy(cl, d)

-----------------------------------------------------------------------------
(* The state machine: a caller builds a local-energy function, evaluates    *)
(* it, takes the result, and may drop the function to build another.        *)

NoArgs == [states |-> 0]

NoClosure == [states |-> 0]

NoCall == [nspins |-> 0]

NoPf == [n |-> 0]

\* No earlier call of the function is remembered.
NoSeen == [taken |-> FALSE]

\* data.positions of electrons at xs on the x axis
FlatPositions(xs) == Flatten([e \in 1..Len(xs) |-> <<xs[e], 0, 0>>])

Init ==
  /\ args = NoArgs
  /\ built = "none"
  /\ closure = NoClosure
  /\ call = NoCall
  /\ out = NoOut
  /\ seen = NoSeen
  /\ pf = NoPf
  /\ pfout = NoPf

\* local_energy(f, charges, nspins, use_scan, complex_output, laplacian_method,
\*              states, pp_type, pp_symbols)
LocalEnergy(a) ==
  /\ built = "none"
  /\ args' = a
  /\ IF ConstructionRaises(a)
     THEN /\ built' = "NotImplementedError"
          /\ closure' = NoClosure
     ELSE /\ built' = "ok"
          /\ closure' = MakeClosure(a)
  /\ UNCHANGED <<call, out, seen, pf, pfout>>

\* A call that leaves the non-local pseudopotential switched off behind it.
EvaluateMutating(m, xs, params, key) ==
  /\ built = "ok"
  /\ out.status = "none"
  /\ Molecules[m].charges = closure.charges
  /\ LET d == [positions |-> FlatPositions(xs),
               nspins    |-> Len(xs),
               atoms     |-> Molecules[m].atoms,
               params    |-> params,
               key       |-> key]
     IN  /\ call' = d
         /\ out' = E_l(closure, d)
  /\ closure' = [closure EXCEPT !.pp_nonlocal = "zero"]
  /\ UNCHANGED <<args, built, seen, pf, pfout>>

\* A call of the returned function on a configuration of the molecule it was
\* built for.
Evaluate(m, xs, params, key) ==
  /\ built = "ok"
  /\ out.status = "none"
  /\ Molecules[m].charges = closure.charges
  /\ LET d == [positions |-> FlatPositions(xs),
               nspins    |-> Len(xs),
               atoms     |-> Molecules[m].atoms,
               params    |-> params,
               key       |-> key]
     IN  /\ call' = d
         /\ out' = E_l(closure, d)
  /\ UNCHANGED <<args, built, closure, seen, pf, pfout>>

\* The caller takes the result (or the exception).
TakeResult ==
  /\ out.status # "none"
  /\ out' = NoOut
  /\ call' = NoCall
  /\ UNCHANGED <<args, built, closure, seen, pf, pfout>>

\* The caller drops the function, or the failed construction.
Drop ==
  /\ built # "none"
  /\ out.status = "none"
  /\ built' = "none"
  /\ args' = NoArgs
  /\ closure' = NoClosure
  /\ UNCHANGED <<call, out, seen, pf, pfout>>

\* The caller takes the result and keeps it, with the arguments of the call,
\* to compare later calls against.
TakeAndRemember ==
  /\ out.status # "none"
  /\ seen' = [taken |-> TRUE, call |-> call, out |-> out]
  /\ out' = NoOut
  /\ call' = NoCall
  /\ UNCHANGED <<args, built, closure, pf, pfout>>

Next ==
  \/ \E a \in Args : LocalEnergy(a)
  \/ \E m \in 1..Len(Molecules) : \E n \in 1..MaxElec : \E xs \in [1..n -> Coords] :
       \E params \in Params : \E key \in Keys : Evaluate(m, xs, params, key)
  \/ TakeResult
  \/ Drop

Spec == Init /\ [][Next]_vars

-----------------------------------------------------------------------------
(* Sequences of calls of one constructed function, of which the caller       *)
(* remembers one: a pseudopotential on Li, the scan loop, and electrons at   *)
(* the coordinates CallCoords.                                              *)

CallArgs == {a \in Args : a.use_scan /\ a.pp_symbols = <<"Li">>}

CallCoords == {0, 1}

NextCalls ==
  \/ \E a \in CallArgs : LocalEnergy(a)
  \/ \E n \in 1..MaxElec : \E xs \in [1..n -> CallCoords] : \E params \in Params :
       Evaluate(1, xs, params, params - 1)
  \/ TakeResult
  \/ TakeAndRemember

SpecCalls == Init /\ [][NextCalls]_vars

-----------------------------------------------------------------------------
(* Construction-time validation                                             *)

\* C1: local_energy called with complex_output = true and states > 1 raises,
\* for every laplacian method and pseudopotential setting: no closure is
\* returned and nothing is evaluated.
C1_ComplexExcitedRejected ==
  (built # "none" /\ args.complex_output /\ args.states > 1) =>
    /\ built = "NotImplementedError"
    /\ closure = NoClosure
    /\ out.status = "none"

\* The combination was requested with a valid laplacian method and was refused.
C1_Witness ==
  /\ built = "NotImplementedError"
  /\ args.complex_output
  /\ args.states > 1
  /\ args.laplacian_method = "default"
  /\ args.pp_symbols # <<>>

\* C2: local_energy called with laplacian_method = 'folx' and complex_output =
\* true raises at construction, for states = 0 and for states = 1.
C2_FolxComplexRejected ==
  (built # "none" /\ args.laplacian_method = "folx" /\ args.complex_output
     /\ args.states \in {0, 1}) =>
    built = "NotImplementedError"

\* C3: local_energy called with a laplacian method other than 'default' and
\* 'folx' raises at construction, in ground-state and in excited-state mode.
C3_UnknownMethodRejected ==
  (built # "none" /\ args.laplacian_method \notin {"default", "folx"}) =>
    built = "NotImplementedError"

-----------------------------------------------------------------------------
(* Results of an evaluation                                                 *)

\* C4: every returned pair has no matrix when states = 0, and when states >= 1
\* a states x states matrix whose diagonal sums to the returned scalar.
C4_ResultShape ==
  (out.status = "returned") =>
    IF closure.states = 0
    THEN out.mat = <<>>
    ELSE /\ Len(out.mat) = closure.states
         /\ \A i \in 1..Len(out.mat) : Len(out.mat[i]) = closure.states
         /\ out.total = CReal(RSum([i \in 1..closure.states |-> out.mat[i][i]]))

\* A finite 3 x 3 energy matrix that is not symmetric was returned.
C4_Witness ==
  /\ out.status = "returned"
  /\ closure.states = 3
  /\ \A i \in 1..3 : \A j \in 1..3 : IsFinite(out.mat[i][j])
  /\ out.mat[1][2] # out.mat[2][1]
  /\ out.total.re # Zero

\* The features of the configuration of the current call.
CallFeatures == ConstructInputFeatures(call.positions, call.atoms)

\* C5: in ground-state mode the returned total is electron-electron +
\* electron-nuclear (effective charges) + nuclear-nuclear + local and non-local
\* pseudopotential + the kinetic estimator's value, and no matrix is returned.
C5_GroundTotal ==
  (out.status = "returned" /\ closure.states = 0) =>
    /\ out.mat = <<>>
    /\ out.total =
         CAdd(LocalKineticEnergy(closure.use_scan, closure.complex_output,
                                 closure.laplacian_method, call.params,
                                 call.positions),
              CReal(RSum(<<PotentialElectronElectron(CallFeatures.r_ee),
                           PotentialElectronNuclear(closure.effective_charges,
                                                    CallFeatures.r_ae),
                           PotentialNuclearNuclear(closure.effective_charges,
                                                   call.atoms),
                           PPLocal(closure, CallFeatures.r_ae),
                           PPNonlocal(closure, call.key, 0)>>)))

\* A finite complex ground-state energy with an active pseudopotential and
\* three electrons at distinct places.
C5_Witness ==
  /\ out.status = "returned"
  /\ closure.states = 0
  /\ closure.use_pp
  /\ closure.complex_output
  /\ call.nspins = 3
  /\ IsFinite(out.total.re)
  /\ out.total.im # Zero

\* The closure with its pseudopotential taken out and the bare charges put in.
WithoutPP(cl, charges) ==
  [cl EXCEPT !.use_pp = FALSE, !.pp_local = "zero", !.pp_nonlocal = "zero",
             !.effective_charges = charges]

\* C6: without symbols, or with symbols whose effective charges equal the bare
\* charges, the charges used are the bare ones and every result, ground or
\* excited, is the one obtained with both pseudopotential operators at zero.
C6_PPInactive ==
  (built = "ok" /\ (\/ args.pp_symbols = <<>>
                    \/ MakePPEffectiveCharges(args.charges, args.pp_symbols)
                         = args.charges)) =>
    /\ closure.effective_charges = args.charges
    /\ out.status # "none" => out = E_l(WithoutPP(closure, args.charges), call)

\* Symbols were supplied, the charges came out unchanged, the module's local
\* operator is non-zero at the configuration, and an excited-state result was
\* returned.
C6_Witness ==
  /\ built = "ok"
  /\ args.pp_symbols = <<"H">>
  /\ out.status = "returned"
  /\ closure.states = 2
  /\ IsFinite(out.total.re)
  /\ PPLocalOp(args.charges, args.pp_symbols, CallFeatures.r_ae) # Zero

\* C7: with states = 1 and a real-valued f, the excited-state path returns a
\* 1 x 1 matrix holding the energy the ground-state path returns for the same
\* params, key and configuration.
C7_OneStateIsGround ==
  (out.status = "returned" /\ closure.states = 1 /\ ~closure.complex_output) =>
    /\ Len(out.mat) = 1
    /\ Len(out.mat[1]) = 1
    /\ \A scan \in BOOLEAN :
         LET g == E_l([closure EXCEPT !.states = 0, !.use_scan = scan], call)
         IN  /\ g.status = "returned"
             /\ out.total = g.total
             /\ out.mat[1][1] = g.total.re

\* A finite energy from the one-state path where the wavefunction is negative
\* and a pseudopotential is active.
C7_Witness ==
  /\ out.status = "returned"
  /\ closure.states = 1
  /\ ~closure.complex_output
  /\ closure.use_pp
  /\ Sign(0, call.positions) = -1
  /\ IsFinite(out.total.re)
  /\ out.total.re # Zero

\* psi_mat of the current call.
CallPsiMat ==
  ExcitedLaplOverF(closure.states, closure.laplacian_method,
                   closure.complex_output, call.params, call.positions).psi_mat

\* The current call is an excited-state evaluation that reached the solve.
ReachedSolve ==
  /\ out.status # "none"
  /\ closure.states >= 1
  /\ closure.laplacian_method \in {"default", "folx"}
  /\ ~SignIsFwdLapl(closure.laplacian_method, closure.complex_output)
  /\ call.nspins % closure.states = 0

\* C8: an excited-state evaluation whose psi_mat is singular ends in an error
\* and returns no (scalar, matrix) pair.
C8_SingularRaises ==
  (ReachedSolve /\ Det(CallPsiMat) = Zero) => out.status = "error"

\* C9: an excited-state evaluation of a configuration whose electron count is
\* not a multiple of states ends in an error, with no energy and no matrix,
\* and every row it split the positions into holds the coordinates of
\* nspins / states electrons; there being no such number of electrons, it
\* split the positions into no rows at all.
C9_FailsBeforeSplitting ==
  (out.status # "none" /\ closure.states >= 1
     /\ call.nspins % closure.states # 0) =>
    /\ out.status = "error"
    /\ out.mat = <<>>
    /\ \A j \in 1..Len(out.blocks) :
         \E per_state \in 0..call.nspins :
           /\ per_state * closure.states = call.nspins
           /\ Len(out.blocks[j]) = 3 * per_state

\* The part of C9 that holds of every such call: it ends in an error, with
\* no energy and no matrix.
C9_IndivisibleRaises ==
  (out.status # "none" /\ closure.states >= 1
     /\ call.nspins % closure.states # 0) =>
    /\ out.status = "error"
    /\ out.err = "ReshapeError"
    /\ out.mat = <<>>

\* Three states and two electrons: the six coordinates were split into three
\* rows of two, and the call raised afterwards.
C9_WrongSizeBlocks ==
  /\ out.status = "error"
  /\ closure.states = 3
  /\ call.nspins = 2
  /\ Len(out.blocks) = 3
  /\ \A j \in 1..3 : Len(out.blocks[j]) = 2

-----------------------------------------------------------------------------
(* potential_electron_electron on its own: symmetric distance tables and    *)
(* relabellings of the electrons.                                           *)

EEDistances == {1, 2, 3}

Pairs(n) == {ij \in (1..n) \X (1..n) : ij[1] < ij[2]}

\* The symmetric table with zero diagonal holding dist above the diagonal.
SymTable(n, dist) ==
  [i \in 1..n |-> [j \in 1..n |->
     IF i = j THEN 0 ELSE IF i < j THEN dist[<<i, j>>] ELSE dist[<<j, i>>]]]

Perms(n) == {p \in [1..n -> 1..n] : \A i, j \in 1..n : p[i] = p[j] => i = j}

\* The table of the electrons relabelled by p.
PermuteTable(r_ee, p) ==
  [i \in 1..Len(r_ee) |-> [j \in 1..Len(r_ee) |-> r_ee[p[i]][p[j]]]]

InitEE == Init

ApplyEE(n, dist, p) ==
  /\ pf.n = 0
  /\ pf' = [n |-> n, r_ee |-> SymTable(n, dist), perm |-> p]
  /\ pfout' = [n    |-> n,
               v    |-> PotentialElectronElectron(SymTable(n, dist)),
               perm |-> PotentialElectronElectron(PermuteTable(SymTable(n, dist), p))]
  /\ UNCHANGED <<args, built, closure, call, out, seen>>

NextEE ==
  \E n \in 1..MaxElec : \E dist \in [Pairs(n) -> EEDistances] : \E p \in Perms(n) :
    ApplyEE(n, dist, p)

SpecEE == InitEE /\ [][NextEE]_vars

\* C10: potential_electron_electron is the sum of 1/distance over the unordered
\* pairs of distinct electrons, each once (half the sum over the ordered
\* pairs); relabelling the electrons leaves it unchanged, and it is zero for
\* one electron.
C10_ElectronPairs ==
  (pf.n > 0) =>
    /\ pfout.v = RMul(Half, RSum(Flatten(
         [i \in 1..pf.n |-> [j \in 1..pf.n |->
            IF i = j THEN Zero ELSE RDiv(R(1), R(pf.r_ee[i][j]))]])))
    /\ pfout.perm = pfout.v
    /\ pf.n = 1 => pfout.v = Zero

\* Three electrons at three different distances, relabelled into a different
\* table.
C10_Witness ==
  /\ pf.n = 3
  /\ pf.r_ee[1][2] = 1 /\ pf.r_ee[1][3] = 2 /\ pf.r_ee[2][3] = 3
  /\ PermuteTable(pf.r_ee, pf.perm) # pf.r_ee
  /\ pfout.v = Norm(11, 6)

-----------------------------------------------------------------------------
(* potential_nuclear_nuclear on its own: molecules of up to MaxAtoms atoms   *)
(* on the x axis, and the exchange of two atoms of the molecule.            *)

\* Largest number of atoms in a molecule.
MaxAtoms == 3

AtomCoords == {0, 1, 3}

NuclearCharges == {1, 3}

AtomsAt(xs) == [a \in 1..Len(xs) |-> <<xs[a], 0, 0>>]

InitNN == Init

ApplyNN(xs, charges, a, b) ==
  /\ pf.n = 0
  /\ pf' = [n |-> Len(xs), atoms |-> AtomsAt(xs), charges |-> charges,
            a |-> a, b |-> b]
  /\ pfout' = [n    |-> Len(xs),
               v    |-> PotentialNuclearNuclear(charges, AtomsAt(xs)),
               swap |-> PotentialNuclearNuclear(Swap(charges, a, b),
                                                Swap(AtomsAt(xs), a, b))]
  /\ UNCHANGED <<args, built, closure, call, out, seen>>

NextNN ==
  \E n \in 1..MaxAtoms : \E xs \in [1..n -> AtomCoords] :
    \E charges \in [1..n -> NuclearCharges] : \E a \in 1..n : \E b \in a..n :
      ApplyNN(xs, charges, a, b)

SpecNN == InitNN /\ [][NextNN]_vars

\* C11: potential_nuclear_nuclear is the sum of charge_a * charge_b / distance
\* over the unordered pairs of distinct atoms, each once (half the sum over
\* the ordered pairs of distinct atoms); it is zero for a single atom, and
\* exchanging two atoms, position and charge together, leaves it unchanged.
C11_NuclearPairs ==
  (pf.n > 0) =>
    /\ pfout.v = RMul(Half, RSum(Flatten(
         [a \in 1..pf.n |-> [b \in 1..pf.n |->
            IF a = b THEN Zero
            ELSE RDiv(R(pf.charges[a] * pf.charges[b]),
                      R(Dist(pf.atoms[a], pf.atoms[b])))]])))
    /\ pfout.swap = pfout.v
    /\ pf.n = 1 => pfout.v = Zero

\* Three atoms at distances 1, 2 and 3 with charges 3, 1, 3: exchanging the
\* first two changes the molecule, and the repulsion is 3/1 + 9/3 + 3/2.
C11_Witness ==
  /\ pf.n = 3
  /\ pf.atoms = <<<<0, 0, 0>>, <<1, 0, 0>>, <<3, 0, 0>>>>
  /\ pf.charges = <<3, 1, 3>>
  /\ pf.a = 1 /\ pf.b = 2
  /\ pfout.v = Norm(15, 2)

-----------------------------------------------------------------------------
(* Repeated calls of one constructed function                               *)

\* C12: no call of a constructed local-energy function changes what was fixed
\* at construction (the arguments and everything the function closes over:
\* method, mode and state count, pseudopotential switches, effective
\* charges), and a call with the same (params, key, configuration) as a call
\* made earlier on the same function returns the same result as that call.
C12_CallsAreRepeatable ==
  /\ [][(built = "ok" /\ built' = "ok") => (closure' = closure /\ args' = args)]_vars
  /\ []((seen.taken /\ out.status # "none" /\ seen.call = call) => out = seen.out)

\* A two-state function with the pseudopotential active has returned a finite
\* energy matrix for a configuration it was called with before.
C12_Witness ==
  /\ built = "ok" /\ closure.states = 2 /\ closure.pp_nonlocal = "pp"
  /\ seen.taken /\ seen.call = call
  /\ out.status = "returned" /\ IsFinite(out.total.re)
  /\ call.positions = <<0, 0, 0, 1, 0, 0>>

-----------------------------------------------------------------------------
(* The default ground-state kinetic energy on its own: a real-valued f on    *)
(* configurations of up to MaxCoords coordinates, under both loops.         *)

\* Largest number of coordinates of a configuration.
MaxCoords == 4

InitKin == Init

ApplyKin(x, params) ==
  /\ pf.n = 0
  /\ pf' = [n |-> Len(x), x |-> x, params |-> params]
  /\ pfout' = [n           |-> Len(x),
               scan        |-> LaplOverFDefault(TRUE, FALSE, params, x),
               fori        |-> LaplOverFDefault(FALSE, FALSE, params, x),
               scan_visits |-> ScanCarries(1, Len(x)),
               fori_visits |-> ForiVisits(1, Len(x), <<>>)]
  /\ UNCHANGED <<args, built, closure, call, out, seen>>

NextKin ==
  \E n \in 1..MaxCoords : \E x \in [1..n -> Coords] : \E params \in Params :
    ApplyKin(x, params)

SpecKin == InitKin /\ [][NextKin]_vars

RECURSIVE ISum(_)
ISum(s) ==
  LET t == Tup(s) IN IF t = <<>> THEN 0 ELSE t[1] + ISum(Tail(t))

\* Whether the sequence visits holds each of 1..n exactly once.
EachOnce(visits, n) ==
  /\ Len(visits) = n
  /\ \A i \in 1..n : Cardinality({t \in 1..Len(visits) : visits[t] = i}) = 1

\* C13: for a real-valued f the scan and the fixed-count loop both visit each
\* of the N coordinates exactly once and give the same kinetic energy,
\* -1/2 sum_i H_ii - 1/2 sum_i g_i^2; with H_ii = -2 alpha W(i) and
\* g_i = -2 alpha W(i) x_i that is alpha sum_i W(i) - 2 alpha^2 sum_i (W(i) x_i)^2.
C13_ScanEqualsLoop ==
  (pf.n > 0) =>
    /\ EachOnce(pfout.scan_visits, pf.n)
    /\ EachOnce(pfout.fori_visits, pf.n)
    /\ pfout.scan = pfout.fori
    /\ pfout.scan = CReal(R(
         Alpha(pf.params, 0) * ISum([i \in 1..pf.n |-> W(i)])
         - 2 * Alpha(pf.params, 0) * Alpha(pf.params, 0)
             * SumSq([i \in 1..pf.n |-> W(i) * pf.x[i]])))

\* Four coordinates with unequal weights and a non-zero gradient:
\* 2 * (1 + 2 + 3 + 1) - 2 * 4 * (1 + 4 + 0 + 1) = -34.
C13_Witness ==
  /\ pf.n = 4
  /\ pf.x = <<1, -1, 0, 1>>
  /\ pf.params = 2
  /\ pfout.fori = CReal(R(-34))

-----------------------------------------------------------------------------
(* The maximum shift of the excited-state reduction                         *)

\* psi_mat of the current call without the shift: sign * exp(log).
UnshiftedPsi ==
  LET pos_ == Reshape(call.positions, closure.states)
  IN  Tup([j \in 1..closure.states |-> Tup([k \in 1..closure.states |->
         RMul(R(PhaseF(closure.complex_output, k - 1, pos_[j])),
              Exp(LogAbs(call.params, k - 1, pos_[j])))])])

\* kpsi_mat of the current call without the shift.
UnshiftedKPsi ==
  LET pos_ == Reshape(call.positions, closure.states)
      psi0 == UnshiftedPsi
  IN  Tup([j \in 1..closure.states |->
         LET lapl == LaplAllStates(closure.states, call.params, pos_[j])
         IN  Tup([k \in 1..closure.states |-> RMul(lapl[k], psi0[j][k])])])

\* The energy matrix of the current call solved from the unshifted matrices.
UnshiftedEnergyMat ==
  LET pot   == PotSpectrum(closure, call,
                           Reshape(call.positions, closure.states))
      psi0  == UnshiftedPsi
      kpsi0 == UnshiftedKPsi
  IN  Solve(psi0,
            [j \in 1..closure.states |-> [k \in 1..closure.states |->
               RAdd(kpsi0[j][k], RMul(psi0[j][k], pot[j][k]))]])

\* C14: in an excited-state evaluation with a non-singular psi_mat, psi_mat
\* and kpsi_mat are the unshifted matrices times one positive constant, and
\* the energy matrix and its trace equal those solved from the unshifted
\* matrices.
C14_ShiftInvariant ==
  ReachedSolve =>
    LET ke    == ExcitedLaplOverF(closure.states, closure.laplacian_method,
                                  closure.complex_output,
                                  call.params, call.positions)
        psi0  == UnshiftedPsi
        kpsi0 == UnshiftedKPsi
        e0    == UnshiftedEnergyMat
        c     == RDiv(ke.psi_mat[1][1], psi0[1][1])
    IN  (Det(ke.psi_mat) # Zero) =>
          /\ IsFinite(c) /\ c.n > 0
          /\ \A j, k \in 1..closure.states :
                /\ ke.psi_mat[j][k] = RMul(c, psi0[j][k])
                /\ ke.kpsi_mat[j][k] = RMul(c, kpsi0[j][k])
          /\ out.mat = e0
          /\ out.total = CReal(Trace(e0))

\* Two states on blocks at x = -1 and x = 1: every log-magnitude is negative,
\* so the shift changes psi_mat, which is non-singular, and the energies
\* are finite.
C14_Witness ==
  /\ ReachedSolve
  /\ closure.states = 2
  /\ call.positions = <<-1, 0, 0, 1, 0, 0>>
  /\ Det(CallPsiMat) # Zero
  /\ CallPsiMat # UnshiftedPsi
  /\ out.status = "returned" /\ IsFinite(out.total.re)

-----------------------------------------------------------------------------
(* utils/scf.py: get_excitations.  A mean field is a record of mo_occ and    *)
(* mo_energy, each a pair (spin up, spin down) of sequences over the         *)
(* orbitals; occupied orbitals come first.  Spins and orbital indices count  *)
(* from 0 as in the source; an excitation is the record of its energy        *)
(* difference de, its spin change ds and its list of (occupied, unoccupied)  *)
(* swaps, each index a pair (spin, orbital).                                 *)

\* Number of orbitals of each spin.
MaxOrb == 2
\* Largest number of excitations asked for.
MaxN == 4

\* Orbital energies of spin up, and of spin down.
OrbEnergies == {0, 1, 3}

OrbEnergiesDown == {0, 3}

\* Tuple comparison (spin, orbital) < (spin, orbital) of Python.
TupleLess(p, q) == p[1] < q[1] \/ (p[1] = q[1] /\ p[2] < q[2])

\* energy[spin][i]
EnergyOf(energy, idx) == energy[idx[1] + 1][idx[2] + 1]

SingleExcitations(nocc, norb, energy) ==
  Flatten([so \in 1..2 |-> Flatten([io \in 1..nocc[so] |->
    Flatten([su \in 1..2 |-> [t \in 1..(norb[su] - nocc[su]) |->
      LET occ   == <<so - 1, io - 1>>
          unocc == <<su - 1, nocc[su] + t - 1>>
      IN  [de    |-> EnergyOf(energy, unocc) - EnergyOf(energy, occ),
           ds    |-> occ[1] - unocc[1],
           swaps |-> <<<<occ, unocc>>>>]]])])])

DoubleExcitations(nocc, norb, energy) ==
  Flatten([so1 \in 1..2 |-> Flatten([io1 \in 1..nocc[so1] |->
    Flatten([su1 \in 1..2 |-> Flatten([t1 \in 1..(norb[su1] - nocc[su1]) |->
      Flatten([so2 \in 1..2 |-> Flatten([io2 \in 1..nocc[so2] |->
        Flatten([su2 \in 1..2 |-> Flatten([t2 \in 1..(norb[su2] - nocc[su2]) |->
          LET occ_index1   == <<so1 - 1, io1 - 1>>
              occ_index2   == <<so2 - 1, io2 - 1>>
              unocc_index1 == <<su1 - 1, nocc[su1] + t1 - 1>>
              unocc_index2 == <<su2 - 1, nocc[su2] + t2 - 1>>
          IN  IF TupleLess(occ_index1, occ_index2)
                 /\ TupleLess(unocc_index1, unocc_index2)
              THEN << [de    |-> EnergyOf(energy, unocc_index1)
                                 + EnergyOf(energy, unocc_index2)
                                 - EnergyOf(energy, occ_index1)
                                 - EnergyOf(energy, occ_index2),
                       ds    |-> occ_index1[1] + occ_index2[1]
                                 - unocc_index1[1] - unocc_index2[1],
                       swaps |-> <<<<occ_index1, unocc_index1>>,
                                   <<occ_index2, unocc_index2>>>>] >>
              ELSE <<>>])])])])])])])])

\* [x for x in res if x[1] == 0]
RECURSIVE SpinPreserving(_)
SpinPreserving(res) ==
  IF res = <<>> THEN <<>>
  ELSE (IF Head(res).ds = 0 THEN <<Head(res)>> ELSE <<>>)
       \o SpinPreserving(Tail(res))

\* x put into the list sorted by de, behind every entry whose de is not larger.
InsertStable(sorted, x) ==
  LET k == Cardinality({t \in 1..Len(sorted) : sorted[t].de <= x.de})
  IN  SubSeq(sorted, 1, k) \o <<x>> \o SubSeq(sorted, k + 1, Len(sorted))

\* A sort that leaves the list as it is.
SortNone(res) == res

\* sorted(res, key=lambda x: x[0]): stable, by energy difference.
RECURSIVE SortByEnergy(_)
SortByEnergy(res) ==
  IF res = <<>> THEN <<>>
  ELSE InsertStable(SortByEnergy(SubSeq(res, 1, Len(res) - 1)), res[Len(res)])

\* get_excitations(mean_field, n, preserve_spin)
GetExcitations(mean_field, n, preserve_spin) ==
  LET occ    == mean_field.mo_occ
      energy == mean_field.mo_energy
      nocc   == [spin \in 1..2 |-> ISum(occ[spin])]
      norb   == [spin \in 1..2 |-> Len(occ[spin])]
      all    == SingleExcitations(nocc, norb, energy)
                \o DoubleExcitations(nocc, norb, energy)
      res    == IF preserve_spin THEN SpinPreserving(all) ELSE all
  IN  IF Len(res) < n
      THEN [status |-> "ValueError", list |-> <<>>]
      ELSE [status |-> "returned", list |-> SubSeq(SortByEnergy(res), 1, n)]

\* The occupations with the first k of MaxOrb orbitals occupied.
Aufbau(k) == [i \in 1..MaxOrb |-> IF i <= k THEN 1 ELSE 0]

\* Orbital energies drawn from E, in ascending order.
AscendingEnergies(E) ==
  {e \in [1..MaxOrb -> E] : \A i \in 1..(MaxOrb - 1) : e[i] <= e[i + 1]}

InitExc == Init

ApplyExc(mean_field, n, preserve_spin) ==
  /\ pf.n = 0
  /\ pf' = [n |-> 2 * MaxOrb, mean_field |-> mean_field, nexc |-> n,
            preserve_spin |-> preserve_spin]
  /\ pfout' = [n |-> 2 * MaxOrb, res |-> GetExcitations(mean_field, n, preserve_spin)]
  /\ UNCHANGED <<args, built, closure, call, out, seen>>

NextExc ==
  \E ka \in 0..MaxOrb : \E kb \in 0..MaxOrb :
    \E ea \in AscendingEnergies(OrbEnergies) :
      \E eb \in AscendingEnergies(OrbEnergiesDown) :
      \E n \in 0..MaxN : \E preserve_spin \in BOOLEAN :
        ApplyExc([mo_occ |-> <<Aufbau(ka), Aufbau(kb)>>, mo_energy |-> <<ea, eb>>],
                 n, preserve_spin)

SpecExc == InitExc /\ [][NextExc]_vars

\* The (spin, orbital) indices of a mean field with occupation o.
OrbitalsWith(mean_field, o) ==
  {idx \in (0..1) \X (0..(MaxOrb - 1)) : mean_field.mo_occ[idx[1] + 1][idx[2] + 1] = o}

\* Every single excitation and every ordered double excitation, as a set.
Candidates(mean_field) ==
  LET occ == OrbitalsWith(mean_field, 1)
      un  == OrbitalsWith(mean_field, 0)
      e   == mean_field.mo_energy
  IN  {[de |-> EnergyOf(e, u) - EnergyOf(e, o), ds |-> o[1] - u[1],
        swaps |-> <<<<o, u>>>>] : o \in occ, u \in un}
      \cup
      {[de    |-> EnergyOf(e, q[3]) + EnergyOf(e, q[4])
                  - EnergyOf(e, q[1]) - EnergyOf(e, q[2]),
        ds    |-> q[1][1] + q[2][1] - q[3][1] - q[4][1],
        swaps |-> <<<<q[1], q[3]>>, <<q[2], q[4]>>>>] :
         q \in {r \in occ \X occ \X un \X un :
                  TupleLess(r[1], r[2]) /\ TupleLess(r[3], r[4])}}

\* The candidates get_excitations may return.
Kept(mean_field, preserve_spin) ==
  IF preserve_spin THEN {c \in Candidates(mean_field) : c.ds = 0}
  ELSE Candidates(mean_field)

\* C15: get_excitations chooses among every single excitation and every
\* double excitation with ordered occupied and ordered unoccupied indices,
\* restricted to spin change 0 under preserve_spin.  With fewer than n of them
\* it raises ValueError and returns no list; otherwise it returns n different
\* candidates in non-decreasing order of energy difference, none of them
\* higher in energy than a candidate left out.
C15_LowestExcitations ==
  (pf.n > 0) =>
    LET kept == Kept(pf.mean_field, pf.preserve_spin)
        list == pfout.res.list
    IN  IF Cardinality(kept) < pf.nexc
        THEN pfout.res.status = "ValueError" /\ list = <<>>
        ELSE /\ pfout.res.status = "returned"
             /\ Len(list) = pf.nexc
             /\ \A t \in 1..Len(list) : list[t] \in kept
             /\ \A t, u \in 1..Len(list) : t < u =>
                   list[t] # list[u] /\ list[t].de <= list[u].de
             /\ \A c \in kept : (\A t \in 1..Len(list) : list[t] # c) =>
                   \A t \in 1..Len(list) : list[t].de <= c.de

\* One electron of each spin, orbital energies (0, 1) and (0, 3), spin kept:
\* of the three candidates the two lowest are returned, the single
\* excitations of 1 and of 3, and the double excitation of 4 is left out.
C15_Witness ==
  /\ pf.n > 0
  /\ pf.mean_field = [mo_occ |-> <<<<1, 0>>, <<1, 0>>>>,
                      mo_energy |-> <<<<0, 1>>, <<0, 3>>>>]
  /\ pf.preserve_spin /\ pf.nexc = 2
  /\ Cardinality(Kept(pf.mean_field, TRUE)) = 3
  /\ pfout.res.status = "returned"
  /\ pfout.res.list[1].de = 1 /\ pfout.res.list[2].de = 3

-----------------------------------------------------------------------------
(* utils/scf.py: the Scf object, its run and its pytree registration.  An   *)
(* array is the record of its rank and its nested entries; a Python value   *)
(* that may be None is wrapped, so that None compares with everything.      *)

NoneValue == [is_none |-> TRUE]

Some(v) == [is_none |-> FALSE, v |-> v]

Array(ndim, data) == [ndim |-> ndim, data |-> data]

\* a[None]: the array under a new leading axis of length 1.
LeadingAxis(a) == Array(a.ndim + 1, <<a.data>>)

\* A pyscf molecule: its name and its numbers of spin-up and spin-down
\* electrons.
Mol(nalpha, nbeta) == [name |-> "mol", nelec |-> <<nalpha, nbeta>>]

\* The molecules an Scf is built for: at least one electron, no more
\* spin-down than spin-up electrons, no more of a spin than orbitals.
Mols ==
  {Mol(e[1], e[2]) : e \in {p \in (1..MaxOrb) \X (0..MaxOrb) : p[2] <= p[1]}}

\* Scf.__init__(pyscf_mol=mol, restricted=restricted).  The fields ran and
\* raised are the caller's view of the calls made on the object: whether a
\* run has returned, and the exception the latest call raised.
ScfInit(mol, restricted) ==
  [n           |-> 1,
   mol         |-> mol,
   mol_jax     |-> [spec |-> "spec of " \o mol.name],
   restricted  |-> restricted,
   mean_field  |-> NoneValue,
   excitations |-> NoneValue,
   ran         |-> "no",
   raised      |-> "none"]

\* Orbital coefficients of one spin a solver may converge to: the MaxOrb
\* atomic orbitals in order, or in reverse order.
CoeffInOrder == [i \in 1..MaxOrb |-> [j \in 1..MaxOrb |-> IF i = j THEN 1 ELSE 0]]

CoeffReversed ==
  [i \in 1..MaxOrb |-> [j \in 1..MaxOrb |-> IF i + j = MaxOrb + 1 THEN 1 ELSE 0]]

CoeffChoices == {CoeffInOrder, CoeffReversed}

\* Orbital energies of a converged mean field.
ScfEnergies == [i \in 1..MaxOrb |-> i - 1]

\* What pyscf.scf.RHF(mol).kernel() leaves in the mean field (an RHF, or an
\* ROHF when the spins differ): rank-2 coefficients, rank-1 occupations 2, 1
\* or 0 and rank-1 energies.
RHFResult(c, ka, kb) ==
  [mo_coeff  |-> Some(Array(2, c)),
   mo_occ    |-> Array(1, [i \in 1..MaxOrb |-> Aufbau(ka)[i] + Aufbau(kb)[i]]),
   mo_energy |-> Array(1, ScfEnergies)]

\* What pyscf.scf.UHF(mol).kernel() leaves: one more leading axis, of the spin.
UHFResult(ca, cb, ka, kb) ==
  [mo_coeff  |-> Some(Array(3, <<ca, cb>>)),
   mo_occ    |-> Array(2, <<Aufbau(ka), Aufbau(kb)>>),
   mo_energy |-> Array(2, <<ScfEnergies, ScfEnergies>>)]

\* self.mean_field after kernel(), the solver converging to the coefficients
\* coeffs: one matrix when restricted, one per spin otherwise.
Kernel(scf, coeffs) ==
  IF scf.restricted
  THEN RHFResult(coeffs[1], scf.mol.nelec[1], scf.mol.nelec[2])
  ELSE UHFResult(coeffs[1], coeffs[2], scf.mol.nelec[1], scf.mol.nelec[2])

\* get_excitations on the mean field of an Scf: len(occ[spin]) is taken of a
\* number when the occupations have rank 1, which is a TypeError.
RunExcitations(mf, excitations) ==
  IF mf.mo_occ.ndim # 2
  THEN [status |-> "TypeError", list |-> <<>>]
  ELSE GetExcitations([mo_occ |-> mf.mo_occ.data, mo_energy |-> mf.mo_energy.data],
                      excitations, TRUE)

\* Scf.run(excitations=excitations), the solver returning mf: the mean field
\* is replaced before get_excitations is called, and self.excitations is
\* assigned only when excitations > 0 and get_excitations returns.
ScfRun(scf, mf, excitations) ==
  LET exc == RunExcitations(mf, excitations)
  IN  IF excitations > 0
      THEN IF exc.status = "returned"
           THEN [scf EXCEPT !.mean_field = Some(mf),
                            !.excitations = Some(exc.list),
                            !.ran = "ok", !.raised = "none"]
           ELSE [scf EXCEPT !.mean_field = Some(mf), !.raised = exc.status]
      ELSE [scf EXCEPT !.mean_field = Some(mf), !.ran = "ok", !.raised = "none"]

\* The mo_coeff property: reading self.mean_field.mo_coeff of a mean field
\* that is None is an AttributeError.
MoCoeffGet(scf) ==
  IF scf.mean_field.is_none
  THEN [status |-> "AttributeError", value |-> NoneValue]
  ELSE IF scf.mean_field.v.mo_coeff.is_none
  THEN [status |-> "ok", value |-> NoneValue]
  ELSE IF scf.restricted
  THEN [status |-> "ok", value |-> Some(LeadingAxis(scf.mean_field.v.mo_coeff.v))]
  ELSE [status |-> "ok", value |-> scf.mean_field.v.mo_coeff]

\* The mo_coeff setter.  With a mean field that holds coefficients the ranks
\* are compared, which reads mo_coeff.ndim (an AttributeError of None) and
\* raises ValueError when they differ.  With no mean field the comparison is
\* skipped, and the assignment self.mean_field.mo_coeff = ... then fails.
MoCoeffSet(scf, mo_coeff) ==
  IF scf.mean_field.is_none
  THEN [status |-> "AttributeError", scf |-> scf]
  ELSE IF ~scf.mean_field.v.mo_coeff.is_none /\ mo_coeff.is_none
  THEN [status |-> "AttributeError", scf |-> scf]
  ELSE IF /\ ~scf.mean_field.v.mo_coeff.is_none
          /\ scf.mean_field.v.mo_coeff.v.ndim # mo_coeff.v.ndim
  THEN [status |-> "ValueError", scf |-> scf]
  ELSE [status |-> "ok",
        scf    |-> [scf EXCEPT !.mean_field = Some([@.v EXCEPT !.mo_coeff = mo_coeff])]]

\* scf_flatten(scf): (children, aux_data)
ScfFlatten(scf) ==
  LET got == MoCoeffGet(scf)
  IN  [status   |-> got.status,
       children |-> <<>>,
       aux_data |-> [mo_coeff    |-> got.value,
                     spec        |-> scf.mol_jax.spec,
                     mol         |-> scf.mol,
                     restricted  |-> scf.restricted,
                     excitations |-> scf.excitations]]

\* scf_unflatten(aux_data, children)
ScfUnflatten(aux_data, children) ==
  LET scf0 == ScfInit(aux_data.mol, aux_data.restricted)
      set  == MoCoeffSet(scf0, aux_data.mo_coeff)
  IN  IF children # <<>> THEN [status |-> "AssertionError", scf |-> scf0]
      ELSE IF set.status # "ok" THEN [status |-> set.status, scf |-> set.scf]
      ELSE [status |-> "ok",
            scf    |-> [set.scf EXCEPT !.mol_jax = [spec |-> aux_data.spec],
                                       !.excitations = aux_data.excitations]]

\* The values a caller assigns to scf.mo_coeff: None, a matrix, a matrix
\* under a leading axis of length 1 (what the property returns of a
\* restricted object), or one matrix per spin.
AssignedCoeffs ==
  {NoneValue}
    \cup {Some(Array(2, c)) : c \in CoeffChoices}
    \cup {Some(LeadingAxis(Array(2, c))) : c \in CoeffChoices}
    \cup {Some(Array(3, <<c, CoeffReversed>>)) : c \in CoeffChoices}

InitScf == Init

\* Scf(pyscf_mol=mol, restricted=restricted)
Construct(mol, restricted) ==
  /\ pf.n = 0
  /\ pf' = ScfInit(mol, restricted)
  /\ pfout' = NoPf
  /\ UNCHANGED <<args, built, closure, call, out, seen>>

\* scf.run(excitations=excitations), of a new object or of one that was run
\* before; a copy made of the object before the call is dropped.
Run(coeffs, excitations) ==
  /\ pf.n # 0
  /\ pf.restricted = (Len(coeffs) = 1)
  /\ pf' = ScfRun(pf, Kernel(pf, coeffs), excitations)
  /\ pfout' = NoPf
  /\ UNCHANGED <<args, built, closure, call, out, seen>>

\* scf.mo_coeff = mo_coeff
SetMoCoeff(mo_coeff) ==
  /\ pf.n # 0
  /\ LET set == MoCoeffSet(pf, mo_coeff)
     IN  pf' = [set.scf EXCEPT
                  !.raised = IF set.status = "ok" THEN "none" ELSE set.status]
  /\ pfout' = NoPf
  /\ UNCHANGED <<args, built, closure, call, out, seen>>

\* scf_unflatten(*reversed(scf_flatten(scf))): the copy jax makes of the
\* object through its pytree registration
RoundTrip ==
  /\ pf.n # 0
  /\ pfout.n = 0
  /\ LET flat == ScfFlatten(pf)
     IN  pfout' = IF flat.status # "ok"
                  THEN [n |-> 1, status |-> flat.status, scf |-> pf]
                  ELSE [n |-> 1] @@ ScfUnflatten(flat.aux_data, flat.children)
  /\ UNCHANGED <<args, built, closure, call, out, seen, pf>>

NextScf ==
  \/ \E mol \in Mols : \E restricted \in BOOLEAN : Construct(mol, restricted)
  \/ \E c \in CoeffChoices : \E excitations \in 0..MaxN : Run(<<c>>, excitations)
  \/ \E ca \in CoeffChoices : \E cb \in CoeffChoices : \E excitations \in 0..MaxN :
       Run(<<ca, cb>>, excitations)
  \/ \E mo_coeff \in AssignedCoeffs : SetMoCoeff(mo_coeff)
  \/ RoundTrip

SpecScf == InitScf /\ [][NextScf]_vars

\* C16: flattening an Scf whose run has completed and unflattening the result
\* ends without an error, in an Scf with the same mo_coeff, the same
\* restricted flag and the same excitations as the original.
C16_RoundTripPreserves ==
  (pfout.n # 0 /\ pf.n # 0 /\ pf.ran = "ok") =>
    /\ pfout.status = "ok"
    /\ MoCoeffGet(pfout.scf) = MoCoeffGet(pf)
    /\ pfout.scf.restricted = pf.restricted
    /\ pfout.scf.excitations = pf.excitations

====
